---- MODULE Spec2Model ----
(***************************************************************************)
(* Chronodex: a radial 24-hour day planner.                                *)
(*                                                                         *)
(* The model covers the geometry kernel (utils/time-utils), the activity   *)
(* store (ChronodexService) and the move-capable ChronodexComponent: the   *)
(* overlap-level layout, the drag state machine and the edit modal.        *)
(*                                                                         *)
(* Units.  A timestamp is an integer number of minutes since local         *)
(* midnight of day 0 (every Date the program builds has zero seconds and   *)
(* milliseconds).  An angle is an integer number of eighths of a degree,   *)
(* so that the snap step 3.75 deg (30), its half 1.875 deg (15), one       *)
(* minute of arc 0.25 deg (2) and whole degrees (8) are all exact.         *)
(***************************************************************************)
EXTENDS Integers, Sequences, FiniteSets, TLC

VARIABLES
    activities,         \* ChronodexService.activitiesSubject.value = ChronodexComponent.activities
    storage,            \* localStorage[STORAGE_KEY], as the array it parses to
    notified,           \* whether the handler that ran last made activitiesSubject emit
    nextId,             \* the number of ids crypto.randomUUID() has handed out
    isDragging,
    draggedActivityId,
    dragMode,
    dragStartAngle,
    initialStartTime,
    initialEndTime,
    initialDuration,
    hasMoved,
    isModalOpen,
    editingActivity,
    gestures,           \* the number of pointer-downs so far
    kernel              \* a call of the geometry kernel made on its own: the
                        \* function, its arguments and, once returned, its results

vars == <<activities, storage, notified, nextId, isDragging, draggedActivityId,
          dragMode, dragStartAngle, initialStartTime, initialEndTime,
          initialDuration, hasMoved, isModalOpen, editingActivity, gestures, kernel>>

storeVars == <<activities, storage>>
dragVars  == <<isDragging, draggedActivityId, dragMode, dragStartAngle,
               initialStartTime, initialEndTime, initialDuration, hasMoved>>
modalVars == <<isModalOpen, editingActivity>>
appVars   == <<storeVars, notified, nextId, dragVars, modalVars, gestures>>

----------------------------------------------------------------------------
(* Bounds of the model *)

MaxGestures == 2        \* pointer-downs in one run
MaxActs == 3            \* activities handed to the store when the layout is exercised

(* Program constants, in the model's units *)

Step == 30              \* 3.75 deg
FullTurn == 2880        \* 360 deg
HourAngle == 120        \* 15 deg = one hour on the dial
MoveThreshold == 16     \* 2 deg
DayMinutes == 1440      \* 24 * 60
DefaultDuration == 60
QuarterHour == 15

Null == 0               \* null (no id)
Undefined == -1         \* undefined (an optional field never assigned); no
                        \* timestamp of the model is -1

Modes == {"start", "end", "move"}

NullActivity ==
    [id |-> Null, title |-> "", startTime |-> Undefined, endTime |-> Undefined,
     durationMinutes |-> Undefined, color |-> ""]

----------------------------------------------------------------------------
(* JavaScript arithmetic *)

\* a % b of JavaScript: the remainder has the sign of the dividend
JsMod(a, b) == IF a >= 0 THEN a % b ELSE 0 - ((0 - a) % b)

\* Math.round(n / d), d > 0: the nearest integer, a half rounding up
MathRound(n, d) == (2 * n + d) \div (2 * d)

\* Date getters and setters, local time
getHours(date) == (date % DayMinutes) \div 60
getMinutes(date) == date % 60
StartOfDay(date) == date - (date % DayMinutes)
\* new Date(date).setHours(h, m, 0, 0): out-of-range h, m carry over
setHours(date, h, m) == StartOfDay(date) + h * 60 + m
\* new Date(date).setMinutes(m, 0, 0)
setMinutes(date, m) == date - getMinutes(date) + m

----------------------------------------------------------------------------
(* Geometry kernel *)

\* a slip: the minutes are left out
timeToAngle_HoursOnly(date) == getHours(date) * HourAngle

timeToAngle(date) == ((getHours(date) * 60 + getMinutes(date)) * HourAngle) \div 60

angleToTime(angle, baseDate) ==
    LET normalizedAngle == JsMod(angle + FullTurn, FullTurn)
        hours == normalizedAngle \div HourAngle
        minutes == MathRound((normalizedAngle - hours * HourAngle) * 60, HourAngle)
    IN  setHours(baseDate, hours, minutes)

\* a slip: the angle is not snapped at all
snapAngleTo15Min_None(angle) == angle

\* a slip: Math.floor in place of Math.round
snapAngleTo15Min_Floor(angle) == (angle \div Step) * Step

snapAngleTo15Min(angle) == MathRound(angle, Step) * Step

\* describeArc works in hundredths of a degree, so that 359.99 deg is exact
\* (an angle that timeToAngle returns is a multiple of 0.25 deg)
ArcFullTurn == 36000        \* 360 deg
ArcAlmostFull == 35999      \* 359.99 deg
ArcHalfTurn == 18000        \* 180 deg

\* a slip: the flag is set from 180 deg on
describeArc_FlagAtHalf(startAngle, endAngle) ==
    LET sweepTooWide ==
            (IF endAngle - startAngle < 0 THEN startAngle - endAngle
                                          ELSE endAngle - startAngle) >= ArcFullTurn
        usedEndAngle == IF sweepTooWide THEN startAngle + ArcAlmostFull ELSE endAngle
        largeArcFlag == IF usedEndAngle - startAngle < ArcHalfTurn THEN 0 ELSE 1
    IN  <<usedEndAngle, largeArcFlag, 0>>

\* describeArc(x, y, radius, startAngle, endAngle): the centre and the radius
\* only place the points.  The result holds the end angle handed to
\* polarToCartesian, the large-arc flag and the sweep flag of the path.
describeArc(startAngle, endAngle) ==
    LET sweepTooWide ==
            (IF endAngle - startAngle < 0 THEN startAngle - endAngle
                                          ELSE endAngle - startAngle) >= ArcFullTurn
        usedEndAngle == IF sweepTooWide THEN startAngle + ArcAlmostFull ELSE endAngle
        largeArcFlag == IF usedEndAngle - startAngle <= ArcHalfTurn THEN 0 ELSE 1
    IN  <<usedEndAngle, largeArcFlag, 0>>

----------------------------------------------------------------------------
(* Sequence helpers *)

\* Array.prototype.findIndex, 1-based; 0 when nothing matches
FindIndex(acts, id) ==
    IF \E i \in 1..Len(acts) : acts[i].id = id
    THEN CHOOSE i \in 1..Len(acts) :
            /\ acts[i].id = id
            /\ \A j \in 1..(i - 1) : acts[j].id # id
    ELSE 0

RECURSIVE FilterOut(_, _)
\* Array.prototype.filter(a => a.id !== id)
FilterOut(acts, id) ==
    IF acts = <<>> THEN <<>>
    ELSE IF Head(acts).id = id THEN FilterOut(Tail(acts), id)
         ELSE <<Head(acts)>> \o FilterOut(Tail(acts), id)

Abs(n) == IF n < 0 THEN 0 - n ELSE n

----------------------------------------------------------------------------
(* Overlap-level layout (ChronodexComponent.leveledActivities) *)

\* a slip: activities that only touch count as overlapping
areOverlapping_Touching(a, b) ==
    (a.startTime <= b.endTime) /\ (a.endTime >= b.startTime)

\* a slip in the second comparison: the two ends are compared
areOverlapping_EndVsEnd(a, b) ==
    (a.startTime < b.endTime) /\ (a.endTime > b.endTime)

areOverlapping(a, b) ==
    LET start1 == a.startTime
        end1 == a.endTime
        start2 == b.startTime
        end2 == b.endTime
    IN  (start1 < end2) /\ (end1 > start2)

RECURSIVE InsertByStart(_, _)
\* one step of the stable sort: a goes after every entry that does not start later
InsertByStart(sorted, a) ==
    IF sorted = <<>> THEN <<a>>
    ELSE IF Head(sorted).startTime - a.startTime <= 0
         THEN <<Head(sorted)>> \o InsertByStart(Tail(sorted), a)
         ELSE <<a>> \o sorted

RECURSIVE SortFrom(_, _)
SortFrom(acts, sorted) ==
    IF acts = <<>> THEN sorted
    ELSE SortFrom(Tail(acts), InsertByStart(sorted, Head(acts)))

\* [...activities].sort((a, b) => a.startTime.getTime() - b.startTime.getTime())
SortByStart(acts) == SortFrom(acts, <<>>)

\* { ...act, level }
WithLevel(act, level) ==
    [id |-> act.id, title |-> act.title, startTime |-> act.startTime,
     endTime |-> act.endTime, durationMinutes |-> act.durationMinutes,
     color |-> act.color, level |-> level]

\* a slip: every activity is given a ring of its own
FirstFreeLevel_OwnRing(result, act, level) == Len(result)

RECURSIVE FirstFreeLevel(_, _, _)
\* while (result.some(r => r.level === level && areOverlapping(act, r))) level++
FirstFreeLevel(result, act, level) ==
    IF \E i \in 1..Len(result) :
            result[i].level = level /\ areOverlapping(act, result[i])
    THEN FirstFreeLevel(result, act, level + 1)
    ELSE level

RECURSIVE PlaceAll(_, _)
PlaceAll(sorted, result) ==
    IF sorted = <<>> THEN result
    ELSE PlaceAll(Tail(sorted),
                  Append(result,
                         WithLevel(Head(sorted),
                                   FirstFreeLevel(result, Head(sorted), 0))))

leveledActivities(acts) == PlaceAll(SortByStart(acts), <<>>)

----------------------------------------------------------------------------
(* Activity store (ChronodexService) *)

\* Date.prototype.toISOString, as JSON.stringify writes a Date: the calendar
\* day, hour and minute (seconds and milliseconds are zero)
toISOString(date) ==
    [day |-> date \div DayMinutes, hour |-> getHours(date), minute |-> getMinutes(date)]

\* new Date(iso)
fromISOString(iso) == iso.day * DayMinutes + iso.hour * 60 + iso.minute

\* JSON.stringify(activities)
stringify(acts) ==
    [i \in 1..Len(acts) |->
        [acts[i] EXCEPT !.startTime = toISOString(acts[i].startTime),
                        !.endTime = toISOString(acts[i].endTime)]]

\* loadFromStorage: JSON.parse and the revival of the Date fields
loadFromStorage(saved) ==
    [i \in 1..Len(saved) |->
        [saved[i] EXCEPT !.startTime = fromISOString(saved[i].startTime),
                         !.endTime = fromISOString(saved[i].endTime)]]

\* a slip: the list as it was before the call is the one saved
Emit_StaleSave(updated) ==
    /\ activities' = updated
    /\ storage' = stringify(activities)
    /\ notified' = TRUE

\* activitiesSubject.next(updated); saveToStorage(updated)
Emit(updated) ==
    /\ activities' = updated
    /\ storage' = stringify(updated)
    /\ notified' = TRUE

NoEmit ==
    /\ notified' = FALSE
    /\ UNCHANGED storeVars

addActivity(activity) == Emit(Append(activities, activity))

\* a slip: an activity whose id is not found is appended
updateActivity_Upsert(activity) ==
    LET index == FindIndex(activities, activity.id)
    IN  IF index # 0
        THEN Emit([activities EXCEPT ![index] = activity])
        ELSE Emit(Append(activities, activity))

updateActivity(activity) ==
    LET index == FindIndex(activities, activity.id)
    IN  IF index # 0
        THEN Emit([activities EXCEPT ![index] = activity])
        ELSE NoEmit

svcDeleteActivity(id) == Emit(FilterOut(activities, id))

clearActivities == Emit(<<>>)

----------------------------------------------------------------------------
(* Inputs of the handlers *)

\* what new Date() returns to the successive calls of addNow, to the minute:
\* 09:07 of day 0, then 22:53 of day 0
ClockReadings == <<547, 1373>>

\* the seconds of a clock reading
ClockSeconds == {0, 45}

\* every minute of day 0
DayReadings == 0..(DayMinutes - 1)

\* pointer angles (getAngleFromEvent), eighths of a degree in [0, 360):
\* 15 deg (01:00) and 135 deg (09:00)
AngleSamples == {120, 1080}

\* a richer set: 0.5, 15, 135, 138 and 359.5 deg
DragAngles == {4, 120, 1080, 1104, 2876}

\* every pointer angle of the grid
AllAngles == 0..(FullTurn - 1)

\* what getRandomColor returns (one of predefinedColors)
Palette == {"#ff5e57"}

\* what the edit form may put in the copy: a title and a colour
FormValues == {<<"Lunch", "#1dd1a1">>}

----------------------------------------------------------------------------
(* ChronodexComponent *)

\* now and seconds are the minute and the seconds that new Date() returns;
\* getMinutes does not see the seconds and setMinutes(m, 0, 0) zeroes them
addNow(now, seconds, color) ==
    LET minutes == getMinutes(now)
        roundedMinutes == MathRound(minutes, QuarterHour) * QuarterHour
        startTime == setMinutes(now, roundedMinutes)
        endTime == startTime + 60
        newActivity ==
            [id |-> nextId + 1, title |-> "New Activity", startTime |-> startTime,
             endTime |-> endTime, durationMinutes |-> DefaultDuration,
             color |-> color]
    IN  /\ nextId' = nextId + 1
        /\ addActivity(newActivity)
        /\ UNCHANGED <<dragVars, modalVars, gestures, kernel>>

handleMouseDown(activityId, mode, angle) ==
    LET index == FindIndex(activities, activityId)
    IN  /\ gestures < MaxGestures
        /\ gestures' = gestures + 1
        /\ isDragging' = TRUE
        /\ draggedActivityId' = activityId
        /\ dragMode' = mode
        /\ dragStartAngle' = angle
        /\ IF index # 0
           THEN /\ initialStartTime' = activities[index].startTime
                /\ initialEndTime' = activities[index].endTime
                /\ initialDuration' = activities[index].durationMinutes
                /\ hasMoved' = FALSE
           ELSE UNCHANGED <<initialStartTime, initialEndTime, initialDuration, hasMoved>>
        /\ NoEmit
        /\ UNCHANGED <<nextId, modalVars, kernel>>

\* a slip: the wrap of a negative difference is left out
WrappedDuration_NoWrap(startTime, endTime) == endTime - startTime

\* diff = (endTime - startTime) in minutes; if (diff < 0) diff += 24 * 60
WrappedDuration(startTime, endTime) ==
    LET diff == endTime - startTime
    IN  IF diff < 0 THEN diff + DayMinutes ELSE diff

\* this.initialDuration || activity.durationMinutes
DurationOrCurrent(activity) ==
    IF initialDuration # Undefined /\ initialDuration # 0
    THEN initialDuration
    ELSE activity.durationMinutes

\* a slip: the dragged endpoint is anchored to its own date
DraggedTo_AnchorsOwnDate(activity, snappedAngle) ==
    IF dragMode = "move" /\ initialStartTime # Undefined /\ initialEndTime # Undefined
    THEN LET angleDiff == snappedAngle - snapAngleTo15Min(dragStartAngle)
             timeDiff == (angleDiff * 60) \div HourAngle
         IN  [activity EXCEPT
                !.startTime = initialStartTime + timeDiff,
                !.endTime = initialEndTime + timeDiff,
                !.durationMinutes = DurationOrCurrent(activity)]
    ELSE IF dragMode = "end"
    THEN LET endTime == angleToTime(snappedAngle, activity.endTime)
         IN  [activity EXCEPT
                !.endTime = endTime,
                !.durationMinutes = WrappedDuration(activity.startTime, endTime)]
    ELSE IF dragMode = "start"
    THEN LET startTime == angleToTime(snappedAngle, activity.startTime)
         IN  [activity EXCEPT
                !.startTime = startTime,
                !.durationMinutes = WrappedDuration(startTime, activity.endTime)]
    ELSE activity

\* the activity onMove computes from the dragged one
DraggedTo(activity, snappedAngle) ==
    IF dragMode = "move" /\ initialStartTime # Undefined /\ initialEndTime # Undefined
    THEN LET angleDiff == snappedAngle - snapAngleTo15Min(dragStartAngle)
             timeDiff == (angleDiff * 60) \div HourAngle
         IN  [activity EXCEPT
                !.startTime = initialStartTime + timeDiff,
                !.endTime = initialEndTime + timeDiff,
                !.durationMinutes = DurationOrCurrent(activity)]
    ELSE IF dragMode = "end"
    THEN LET endTime == angleToTime(snappedAngle, activity.startTime)
         IN  [activity EXCEPT
                !.endTime = endTime,
                !.durationMinutes = WrappedDuration(activity.startTime, endTime)]
    ELSE IF dragMode = "start"
    THEN LET startTime == angleToTime(snappedAngle, activity.endTime)
         IN  [activity EXCEPT
                !.startTime = startTime,
                !.durationMinutes = WrappedDuration(startTime, activity.endTime)]
    ELSE activity

\* the latch after a move to angle
MovedAt(angle) == hasMoved \/ Abs(angle - dragStartAngle) > MoveThreshold

\* a slip: the update is pushed whether or not anything changed
PushAlways(activity, updatedActivity) == updateActivity(updatedActivity)

\* const hasChanged = ...; if (hasChanged) updateActivity(updatedActivity)
PushIfChanged(activity, updatedActivity) ==
    LET hasChanged ==
            \/ updatedActivity.startTime # activity.startTime
            \/ updatedActivity.endTime # activity.endTime
    IN  IF hasChanged THEN updateActivity(updatedActivity) ELSE NoEmit

\* a slip: a drag whose activity is gone is ended by the next pointer-move
onMove_DropsLostDrag(angle) ==
    IF ~isDragging \/ draggedActivityId = Null
    THEN /\ NoEmit
         /\ UNCHANGED <<nextId, dragVars, modalVars, gestures, kernel>>
    ELSE LET moved == MovedAt(angle)
             snappedAngle == snapAngleTo15Min(angle)
             index == FindIndex(activities, draggedActivityId)
         IN  /\ hasMoved' = moved
             /\ isDragging' = (index # 0)
             /\ IF (~moved /\ dragMode = "move") \/ index = 0
                THEN NoEmit
                ELSE PushIfChanged(activities[index],
                                   DraggedTo(activities[index], snappedAngle))
             /\ UNCHANGED <<nextId, draggedActivityId, dragMode,
                            dragStartAngle, initialStartTime, initialEndTime,
                            initialDuration, modalVars, gestures, kernel>>

onMove(angle) ==
    IF ~isDragging \/ draggedActivityId = Null
    THEN /\ NoEmit
         /\ UNCHANGED <<nextId, dragVars, modalVars, gestures, kernel>>
    ELSE LET moved == MovedAt(angle)
             snappedAngle == snapAngleTo15Min(angle)
             index == FindIndex(activities, draggedActivityId)
         IN  /\ hasMoved' = moved
             /\ IF (~moved /\ dragMode = "move") \/ index = 0
                THEN NoEmit
                ELSE PushIfChanged(activities[index],
                                   DraggedTo(activities[index], snappedAngle))
             /\ UNCHANGED <<nextId, isDragging, draggedActivityId, dragMode,
                            dragStartAngle, initialStartTime, initialEndTime,
                            initialDuration, modalVars, gestures, kernel>>

\* a slip: the release clears the latch
onEnd_ClearsLatch ==
    /\ isDragging' = FALSE
    /\ draggedActivityId' = Null
    /\ hasMoved' = FALSE
    /\ NoEmit
    /\ UNCHANGED <<nextId, dragMode, dragStartAngle, initialStartTime,
                   initialEndTime, initialDuration, modalVars, gestures, kernel>>

\* a slip: the dragged id is left in place
onEnd_KeepsId ==
    /\ isDragging' = FALSE
    /\ NoEmit
    /\ UNCHANGED <<nextId, draggedActivityId, dragMode, dragStartAngle,
                   initialStartTime, initialEndTime, initialDuration, hasMoved,
                   modalVars, gestures, kernel>>

onEnd ==
    /\ isDragging' = FALSE
    /\ draggedActivityId' = Null
    /\ NoEmit
    /\ UNCHANGED <<nextId, dragMode, dragStartAngle, initialStartTime,
                   initialEndTime, initialDuration, hasMoved, modalVars, gestures, kernel>>

\* a slip: the latch is not consulted
openEditModal_IgnoresLatch(activity) ==
    /\ editingActivity' = activity
    /\ isModalOpen' = TRUE
    /\ NoEmit
    /\ UNCHANGED <<nextId, dragVars, gestures, kernel>>

openEditModal(activity) ==
    /\ IF hasMoved
       THEN UNCHANGED modalVars
       ELSE /\ editingActivity' = activity
            /\ isModalOpen' = TRUE
    /\ NoEmit
    /\ UNCHANGED <<nextId, dragVars, gestures, kernel>>

\* the edit form writes the title and the colour of the copy
editField(title, color) ==
    /\ editingActivity # NullActivity
    /\ editingActivity' = [editingActivity EXCEPT !.title = title, !.color = color]
    /\ editingActivity' # editingActivity
    /\ NoEmit
    /\ UNCHANGED <<nextId, dragVars, isModalOpen, gestures, kernel>>

closeModal ==
    /\ isModalOpen' = FALSE
    /\ editingActivity' = NullActivity

saveActivity ==
    /\ IF editingActivity # NullActivity
       THEN /\ updateActivity(editingActivity)
            /\ closeModal
       ELSE /\ NoEmit
            /\ UNCHANGED modalVars
    /\ UNCHANGED <<nextId, dragVars, gestures, kernel>>

deleteActivity ==
    /\ IF editingActivity # NullActivity
       THEN /\ svcDeleteActivity(editingActivity.id)
            /\ closeModal
       ELSE /\ NoEmit
            /\ UNCHANGED modalVars
    /\ UNCHANGED <<nextId, dragVars, gestures, kernel>>

cancelModal ==
    /\ closeModal
    /\ NoEmit
    /\ UNCHANGED <<nextId, dragVars, gestures, kernel>>

clearAll(confirmed) ==
    /\ IF confirmed THEN clearActivities ELSE NoEmit
    /\ UNCHANGED <<nextId, dragVars, modalVars, gestures, kernel>>

----------------------------------------------------------------------------
(* The component on an empty store *)

InitController ==
    /\ notified = FALSE
    /\ isDragging = FALSE
    /\ draggedActivityId = Null
    /\ dragMode = "end"
    /\ dragStartAngle = 0
    /\ initialStartTime = Undefined
    /\ initialEndTime = Undefined
    /\ initialDuration = Undefined
    /\ hasMoved = FALSE
    /\ isModalOpen = FALSE
    /\ editingActivity = NullActivity
    /\ gestures = 0

\* no kernel call is made on its own
NoCall == [fn |-> "none", args |-> <<>>, ret |-> <<>>]

Init ==
    /\ storage = <<>>
    /\ activities = loadFromStorage(storage)
    /\ nextId = 0
    /\ InitController
    /\ kernel = NoCall

Ids(acts) == {acts[i].id : i \in 1..Len(acts)}
Elements(acts) == {acts[i] : i \in 1..Len(acts)}

\* the handles and arcs on screen are those of the current activities
AddNowStep ==
    /\ nextId < Len(ClockReadings)
    /\ \E seconds \in ClockSeconds, color \in Palette :
        addNow(ClockReadings[nextId + 1], seconds, color)
PointerDownStep(angles) ==
    \E id \in Ids(activities), mode \in Modes, angle \in angles :
        handleMouseDown(id, mode, angle)
PointerMoveStep(angles) == \E angle \in angles : onMove(angle)
OpenModalStep == \E activity \in Elements(activities) : openEditModal(activity)
EditFieldStep == \E form \in FormValues : editField(form[1], form[2])
ClearAllStep == \E confirmed \in BOOLEAN : clearAll(confirmed)

PointerDown == PointerDownStep(AngleSamples)
PointerMove == PointerMoveStep(AngleSamples)

Next ==
    \/ AddNowStep
    \/ PointerDown
    \/ PointerMove
    \/ onEnd
    \/ OpenModalStep
    \/ EditFieldStep
    \/ saveActivity
    \/ deleteActivity
    \/ cancelModal
    \/ ClearAllStep

Spec == Init /\ [][Next]_vars

----------------------------------------------------------------------------
(* addNow and drag gestures alone, over the richer set of angles *)

DragPointerDown == PointerDownStep(DragAngles)
DragPointerMove == PointerMoveStep(DragAngles)

NextDrag ==
    \/ AddNowStep
    \/ DragPointerDown
    \/ DragPointerMove
    \/ onEnd

SpecDrag == Init /\ [][NextDrag]_vars

----------------------------------------------------------------------------
(* One gesture from every press angle, on a list left by an earlier session *)

\* 09:00-10:00, and 23:00-01:00 wrapping past midnight
PersistedActivities ==
    << [id |-> 1, title |-> "New Activity", startTime |-> 540, endTime |-> 600,
        durationMinutes |-> 60, color |-> "#ff5e57"],
       [id |-> 2, title |-> "Lunch", startTime |-> 1380, endTime |-> 60,
        durationMinutes |-> 120, color |-> "#1dd1a1"] >>

InitGesture ==
    /\ storage = stringify(PersistedActivities)
    /\ activities = loadFromStorage(storage)
    /\ nextId = Len(PersistedActivities)
    /\ InitController
    /\ kernel = NoCall

\* the angle delta eighths of a degree further round the dial, either way
DialNeighbours(angle, delta) ==
    {(angle + delta) % FullTurn, (angle - delta) % FullTurn}

Degrees(n) == (n * FullTurn) \div 360

\* pointer travel of 1 deg and of 3 deg
Travels == {Degrees(1), Degrees(3)}

FirstPointerDown ==
    /\ gestures = 0
    /\ PointerDownStep(AllAngles)

NearbyPointerMove ==
    \E delta \in Travels :
        \E angle \in DialNeighbours(dragStartAngle, delta) :
            /\ isDragging
            /\ onMove(angle)

NextGesture ==
    \/ FirstPointerDown
    \/ NearbyPointerMove
    \/ onEnd

SpecGesture == InitGesture /\ [][NextGesture]_vars

----------------------------------------------------------------------------
(* The layout of every short list the store can be handed *)

\* 09:00, 09:30, 10:00, 10:30 and 11:00 of day 0
LevelTimes == {540, 570, 600, 630, 660}

\* every span between two of these times, forwards or wrapping past midnight,
\* and 09:00-09:30 and 09:00-10:00 of day 1
LevelSpans == (LevelTimes \X LevelTimes) \cup {<<1980, 2010>>, <<1980, 2040>>}

StoreAddStep ==
    /\ Len(activities) < MaxActs
    /\ \E span \in LevelSpans :
        /\ addActivity([id |-> nextId + 1, title |-> "New Activity",
                        startTime |-> span[1], endTime |-> span[2],
                        durationMinutes |-> WrappedDuration(span[1], span[2]),
                        color |-> "#ff5e57"])
        /\ nextId' = nextId + 1
    /\ UNCHANGED <<dragVars, modalVars, gestures, kernel>>

NextLevel == StoreAddStep

SpecLevel == Init /\ [][NextLevel]_vars

----------------------------------------------------------------------------
(* The first addNow of a session, at every minute of the day *)

InitClock ==
    /\ storage \in {<<>>, stringify(PersistedActivities)}
    /\ activities = loadFromStorage(storage)
    /\ nextId = Len(activities)
    /\ InitController
    /\ kernel = NoCall

ClockAddNow ==
    /\ ~notified
    /\ \E now \in DayReadings, seconds \in ClockSeconds, color \in Palette :
        addNow(now, seconds, color)

NextClock == ClockAddNow

SpecClock == InitClock /\ [][NextClock]_vars

----------------------------------------------------------------------------
(* The geometry kernel called on its own *)

\* every minute of day 0 and of day 1
KernelTimes == 0..(2 * DayMinutes - 1)

\* every angle of the grid from -360 deg to 720 deg
KernelAngles == (0 - FullTurn)..(2 * FullTurn)

\* 09:07 of day 0 and 23:53 of day 1
BaseDates == {547, 2873}

\* start angles of an arc: 0, 0.25, 90, 345 and 359.75 deg
ArcStarts == {0, 25, 9000, 34500, 35975}

\* sweeps of an arc, end angle minus start angle: around 0, 180 and 360 deg
\* either way, and two turns
ArcSweeps ==
    {0 - 72000, 0 - 36001, 0 - 36000, 0 - 35999, 0 - 18001, 0 - 18000, 0 - 25,
     0, 25, 1500, 17975, 18000, 18001, 18025, 35975, 35999, 36000, 36001, 72000}

Call(fn, args) == [fn |-> fn, args |-> args, ret |-> <<>>]

KernelCalls ==
    {Call("roundTrip", <<t>>) : t \in KernelTimes}
    \cup {Call("angleToTime", <<angle, baseDate>>) :
                angle \in KernelAngles, baseDate \in BaseDates}
    \cup {Call("snapAngleTo15Min", <<angle>>) : angle \in KernelAngles}
    \cup {Call("describeArc", <<startAngle, startAngle + sweep>>) :
                startAngle \in ArcStarts, sweep \in ArcSweeps}

InitKernel ==
    /\ storage = <<>>
    /\ activities = loadFromStorage(storage)
    /\ nextId = 0
    /\ InitController
    /\ kernel \in KernelCalls

Pending(fn) == kernel.fn = fn /\ kernel.ret = <<>>
Returned(fn) == kernel.fn = fn /\ kernel.ret # <<>>

Return(ret) ==
    /\ kernel' = [kernel EXCEPT !.ret = ret]
    /\ UNCHANGED appVars

\* angleToTime(timeToAngle(t), t)
RoundTripCall ==
    /\ Pending("roundTrip")
    /\ Return(<<angleToTime(timeToAngle(kernel.args[1]), kernel.args[1])>>)

AngleToTimeCall ==
    /\ Pending("angleToTime")
    /\ Return(<<angleToTime(kernel.args[1], kernel.args[2])>>)

SnapCall ==
    /\ Pending("snapAngleTo15Min")
    /\ Return(<<snapAngleTo15Min(kernel.args[1])>>)

DescribeArcCall ==
    /\ Pending("describeArc")
    /\ Return(describeArc(kernel.args[1], kernel.args[2]))

NextKernel ==
    \/ RoundTripCall
    \/ AngleToTimeCall
    \/ SnapCall
    \/ DescribeArcCall

SpecKernel == InitKernel /\ [][NextKernel]_vars

----------------------------------------------------------------------------
(* The store called directly, with ids it holds and ids it does not *)

\* 09:00-10:00 of day 0, 23:00 of day 0 to 01:00 of day 1, 09:00-10:00 of day 1
StoreSpans == {<<540, 600>>, <<1380, 1500>>, <<1980, 2040>>}

\* every id handed out so far, and the next one, which no activity carries yet
CallIds == 1..(nextId + 1)

StoreCallAdd ==
    /\ nextId < MaxActs
    /\ \E span \in StoreSpans :
        /\ addActivity([id |-> nextId + 1, title |-> "New Activity",
                        startTime |-> span[1], endTime |-> span[2],
                        durationMinutes |-> WrappedDuration(span[1], span[2]),
                        color |-> "#ff5e57"])
        /\ nextId' = nextId + 1
    /\ UNCHANGED <<dragVars, modalVars, gestures, kernel>>

\* the argument of an update call
Replacement(id, span) ==
    [id |-> id, title |-> "Lunch", startTime |-> span[1], endTime |-> span[2],
     durationMinutes |-> WrappedDuration(span[1], span[2]), color |-> "#1dd1a1"]

UpdateCall(id, span) ==
    /\ updateActivity(Replacement(id, span))
    /\ UNCHANGED <<nextId, dragVars, modalVars, gestures, kernel>>

DeleteCall(id) ==
    /\ svcDeleteActivity(id)
    /\ UNCHANGED <<nextId, dragVars, modalVars, gestures, kernel>>

StoreCallUpdate == \E id \in CallIds, span \in StoreSpans : UpdateCall(id, span)

StoreCallDelete == \E id \in CallIds : DeleteCall(id)

StoreCallClear ==
    /\ clearActivities
    /\ UNCHANGED <<nextId, dragVars, modalVars, gestures, kernel>>

NextStore ==
    \/ StoreCallAdd
    \/ StoreCallUpdate
    \/ StoreCallDelete
    \/ StoreCallClear

SpecStore == Init /\ [][NextStore]_vars

----------------------------------------------------------------------------
(* Claims about the layout *)

\* the overlap test of the claims, on full timestamps
Overlap(a, b) == a.startTime < b.endTime /\ a.endTime > b.startTime

\* the levels that r gives to the activities with these times
LevelsOfSpan(r, startTime, endTime) ==
    {r[i].level : i \in {j \in 1..Len(r) :
                            r[j].startTime = startTime /\ r[j].endTime = endTime}}

HasSpans(spans) ==
    /\ Len(activities) = Cardinality(spans)
    /\ \A span \in spans :
        \E i \in 1..Len(activities) :
            activities[i].startTime = span[1] /\ activities[i].endTime = span[2]

\* C1: in the result of leveledActivities no two distinct entries that carry
\* the same level satisfy the overlap test start1 < end2 and end1 > start2.
C1_SameLevelNeverOverlaps ==
    LET r == leveledActivities(activities)
    IN  \A i, j \in 1..Len(r) :
            (i # j /\ r[i].level = r[j].level) => ~Overlap(r[i], r[j])

\* three activities, two of them on one level, one of these wrapping past
\* midnight (its end earlier than its start), and a third on another level
C1_Witness ==
    LET r == leveledActivities(activities)
    IN  /\ Len(r) = 3
        /\ \E i, j, k \in 1..Len(r) :
            /\ i # j
            /\ r[i].level = r[j].level
            /\ r[i].endTime < r[i].startTime
            /\ r[k].level # r[i].level

\* C2: every activity gets the lowest possible level: the result is in
\* ascending start-time order, holds the activities of the list, and an entry
\* has level L only if for every k < L an entry before it has level k and
\* overlaps it.  So [09:00,10:00) and [09:30,10:30) get 0 and 1, three mutually
\* overlapping activities get 0, 1 and 2, and the touching pair [09:00,10:00),
\* [10:00,11:00) both get 0.
C2_LowestLevel ==
    LET r == leveledActivities(activities)
    IN  /\ Len(r) = Len(activities)
        /\ \A i \in 1..Len(activities) :
            \E j \in 1..Len(r) :
                /\ r[j].id = activities[i].id
                /\ r[j].startTime = activities[i].startTime
                /\ r[j].endTime = activities[i].endTime
        /\ \A i, j \in 1..Len(r) : i < j => r[i].startTime <= r[j].startTime
        /\ \A i \in 1..Len(r) :
            /\ r[i].level >= 0
            /\ \A k \in 0..(r[i].level - 1) :
                \E j \in 1..(i - 1) : r[j].level = k /\ Overlap(r[i], r[j])
        /\ HasSpans({<<540, 600>>, <<570, 630>>})
            => /\ LevelsOfSpan(r, 540, 600) = {0}
               /\ LevelsOfSpan(r, 570, 630) = {1}
        /\ HasSpans({<<540, 600>>, <<600, 660>>})
            => /\ LevelsOfSpan(r, 540, 600) = {0}
               /\ LevelsOfSpan(r, 600, 660) = {0}
        /\ (/\ Len(activities) = 3
            /\ \A i, j \in 1..3 : i # j => Overlap(activities[i], activities[j]))
            => {r[i].level : i \in 1..3} = {0, 1, 2}

\* [09:30,10:30) was added first, then [10:00,11:00), then [09:00,10:00):
\* sorted by start they get levels 0, 1 and 0
C2_Witness ==
    LET r == leveledActivities(activities)
    IN  /\ Len(activities) = 3
        /\ activities[1].startTime = 570 /\ activities[1].endTime = 630
        /\ activities[2].startTime = 600 /\ activities[2].endTime = 660
        /\ activities[3].startTime = 540 /\ activities[3].endTime = 600
        /\ LevelsOfSpan(r, 540, 600) = {0}
        /\ LevelsOfSpan(r, 570, 630) = {1}
        /\ LevelsOfSpan(r, 600, 660) = {0}

\* the part of the 24-hour dial an activity covers: from the time of day of
\* its start clockwise to the time of day of its end
DialStart(a) == a.startTime % DayMinutes
DialLength(a) == (a.endTime - a.startTime) % DayMinutes

\* two arcs of the dial have more than a point in common
DialSpansIntersect(a, b) ==
    /\ DialLength(a) > 0
    /\ DialLength(b) > 0
    /\ \/ (DialStart(b) - DialStart(a)) % DayMinutes < DialLength(a)
       \/ (DialStart(a) - DialStart(b)) % DayMinutes < DialLength(b)

\* C3: any two activities whose time-of-day spans on the 24-hour dial
\* intersect, whatever their calendar dates and also when a span wraps past
\* midnight, are given different levels.
C3_DialOverlapGetsDistinctLevels ==
    LET r == leveledActivities(activities)
    IN  \A i, j \in 1..Len(r) :
            (i # j /\ DialSpansIntersect(r[i], r[j])) => r[i].level # r[j].level

----------------------------------------------------------------------------
(* Claims about the drag state machine and the modal *)

DraggedIndex == FindIndex(activities, draggedActivityId)

\* C4: a release event always leaves the controller idle (isDragging false,
\* draggedActivityId null), whatever was being dragged in whatever mode,
\* whether or not the dragged activity still exists, and when no drag was
\* active.
C4_ReleaseLeavesIdle ==
    [][onEnd => (~isDragging' /\ draggedActivityId' = Null)]_vars

\* idle again after a move-mode drag whose activity was removed meanwhile
C4_Witness ==
    /\ gestures > 0
    /\ dragMode = "move"
    /\ hasMoved
    /\ activities = <<>>
    /\ ~isDragging
    /\ draggedActivityId = Null

\* the offset d of the claim, in minutes: (snap(current) - snap(press)) / 15 hours
MoveOffset(angle) ==
    ((snapAngleTo15Min(angle) - snapAngleTo15Min(dragStartAngle)) * 60) \div HourAngle

\* C5: in move mode every update pushed by a pointer-move sets startTime =
\* originalStart + d and endTime = originalEnd + d, with the snapshots of the
\* pointer-down and d = ((snap(current) - snap(press)) / 15) hours; so the
\* span equals the snapshot's span and durationMinutes the snapshot's duration.
C5_MoveShiftsSnapshot ==
    [][\A angle \in AngleSamples :
        (dragMode = "move" /\ onMove(angle) /\ notified') =>
            LET updated == activities'[DraggedIndex]
            IN  /\ updated.startTime = initialStartTime + MoveOffset(angle)
                /\ updated.endTime = initialEndTime + MoveOffset(angle)
                /\ updated.endTime - updated.startTime
                        = initialEndTime - initialStartTime
                /\ updated.durationMinutes = initialDuration]_vars

\* C6: after any sequence of addNow and drag gestures every stored activity
\* has 0 <= durationMinutes < 1440 and durationMinutes = endTime - startTime
\* in minutes, plus 1440 when that is negative.
C6_DurationIsWrappedSpan ==
    \A i \in 1..Len(activities) :
        LET a == activities[i]
            diff == a.endTime - a.startTime
        IN  /\ 0 <= a.durationMinutes
            /\ a.durationMinutes < 1440
            /\ a.durationMinutes = IF diff < 0 THEN diff + 1440 ELSE diff

\* the activity that starts at 23:00 has had its end handle dragged to 01:00
\* and lasts 120 minutes
C6_Witness ==
    /\ isDragging
    /\ dragMode = "end"
    /\ DraggedIndex # 0
    /\ LET a == activities[DraggedIndex]
       IN  /\ getHours(a.startTime) = 23 /\ getMinutes(a.startTime) = 0
           /\ getHours(a.endTime) = 1 /\ getMinutes(a.endTime) = 0
           /\ a.endTime # initialEndTime
           /\ a.durationMinutes = 120

\* a pointer-move directly after the pointer-down on an existing activity
FreshPress ==
    /\ isDragging
    /\ ~hasMoved
    /\ DraggedIndex # 0
    /\ activities[DraggedIndex].startTime = initialStartTime
    /\ activities[DraggedIndex].endTime = initialEndTime

\* C7: in move mode, for every press angle, a pointer-down followed by a
\* pointer-move to the angle 1 degree away on the dial, in either direction,
\* pushes no update and leaves every activity unchanged.
C7_OneDegreeMoveAltersNothing ==
    [][\A angle \in DialNeighbours(dragStartAngle, Degrees(1)) :
        (FreshPress /\ dragMode = "move" /\ onMove(angle)) =>
            (~notified' /\ activities' = activities /\ storage' = storage)]_vars

\* C8 as stated: in move mode, for every press angle, a pointer-down on an
\* existing activity followed by a pointer-move to the angle 3 degrees away
\* changes that activity's start and end times in the store.
C8_ThreeDegreeMoveChangesTimes ==
    [][\A angle \in DialNeighbours(dragStartAngle, Degrees(3)) :
        (FreshPress /\ dragMode = "move" /\ onMove(angle)) =>
            /\ activities'[DraggedIndex].startTime
                    # activities[DraggedIndex].startTime
            /\ activities'[DraggedIndex].endTime
                    # activities[DraggedIndex].endTime]_vars

\* C8 as amended: such a move sets the hasMoved latch, and it changes the
\* activity's start and end times exactly when the two angles snap to
\* different multiples of 3.75 degrees, both then shifting by the snapped
\* difference; when they snap to the same multiple the store is untouched.
C8_ThreeDegreeMoveSnapped ==
    [][\A angle \in DialNeighbours(dragStartAngle, Degrees(3)) :
        (FreshPress /\ dragMode = "move" /\ onMove(angle)) =>
            LET before == activities[DraggedIndex]
                after == activities'[DraggedIndex]
                sameSnap == MathRound(angle, Step) = MathRound(dragStartAngle, Step)
            IN  /\ hasMoved'
                /\ sameSnap =>
                    (~notified' /\ activities' = activities /\ storage' = storage)
                /\ ~sameSnap =>
                    /\ notified'
                    /\ after.startTime # before.startTime
                    /\ after.endTime # before.endTime
                    /\ after.startTime - before.startTime = MoveOffset(angle)
                    /\ after.endTime - before.endTime = MoveOffset(angle)]_vars

\* a move-mode drag has shifted its activity by a quarter of an hour
C8_Witness ==
    /\ isDragging
    /\ dragMode = "move"
    /\ hasMoved
    /\ DraggedIndex # 0
    /\ activities[DraggedIndex].startTime = initialStartTime + 15
    /\ activities[DraggedIndex].endTime = initialEndTime + 15

\* C9: a pointer-move during a drag calls the store's update only when the
\* computed startTime or endTime differs from the dragged activity's current
\* value; a move that maps to the same snapped times causes no emission and
\* no storage write, and the list is unchanged.
C9_UpdateOnlyOnChange ==
    [][\A angle \in AngleSamples :
        (isDragging /\ draggedActivityId # Null /\ onMove(angle)) =>
            LET computed ==
                    DraggedTo(activities[DraggedIndex], snapAngleTo15Min(angle))
                differs ==
                    /\ DraggedIndex # 0
                    /\ \/ computed.startTime # activities[DraggedIndex].startTime
                       \/ computed.endTime # activities[DraggedIndex].endTime
            IN  /\ notified' => differs
                /\ ~differs =>
                    (~notified' /\ activities' = activities /\ storage' = storage)]_vars

\* an end-handle drag that has pushed an update, and whose last handler made
\* the store emit nothing
C9_Witness ==
    /\ isDragging
    /\ dragMode = "end"
    /\ hasMoved
    /\ DraggedIndex # 0
    /\ activities[DraggedIndex].endTime # initialEndTime
    /\ ~notified
    /\ ~isModalOpen

\* the list with the entry of the copy's id replaced by the copy
Replaced(acts, copy) ==
    [i \in 1..Len(acts) |-> IF acts[i].id = copy.id THEN copy ELSE acts[i]]

KeepsOtherIds(a, id) == a.id # id
Removed(acts, id) == SelectSeq(acts, LAMBDA a : KeepsOtherIds(a, id))

ModalClosed == ~isModalOpen /\ editingActivity = NullActivity

\* C10: openEditModal, edits of the copy and closeModal leave the store's
\* list unchanged; saveActivity replaces the stored activity with the copy and
\* deleteActivity removes it by id; after save, delete or cancel the modal is
\* closed; openEditModal does nothing when the hasMoved latch is set.
C10_ModalIsolation ==
    [][/\ (OpenModalStep \/ EditFieldStep \/ cancelModal) =>
            (~notified' /\ activities' = activities /\ storage' = storage)
       /\ (saveActivity /\ editingActivity # NullActivity) =>
            activities' = Replaced(activities, editingActivity)
       /\ (deleteActivity /\ editingActivity # NullActivity) =>
            activities' = Removed(activities, editingActivity.id)
       /\ (saveActivity \/ deleteActivity \/ cancelModal) => ModalClosed'
       /\ (hasMoved /\ OpenModalStep) =>
            UNCHANGED <<activities, storage, isModalOpen, editingActivity>>]_vars

\* an edited copy has been saved over the stored activity, the modal is closed
C10_Witness ==
    /\ ModalClosed
    /\ notified
    /\ \E i \in 1..Len(activities) : activities[i].title = "Lunch"

----------------------------------------------------------------------------
(* Claims about the store *)

\* C11: updateActivity with an id that is not in the list leaves the list and
\* the persisted storage unchanged and notifies no subscriber; deleteActivity
\* with an id that is not in the list leaves the list's contents and order
\* unchanged.
C11_AbsentIdIsNoOp ==
    [][\A id \in CallIds :
        id \notin Ids(activities) =>
            /\ \A span \in StoreSpans :
                UpdateCall(id, span) =>
                    (activities' = activities /\ storage' = storage /\ ~notified')
            /\ DeleteCall(id) => activities' = activities]_vars

\* the store holds two activities and the call made last, an update, has
\* emitted nothing
C11_Witness ==
    /\ ~notified
    /\ Len(activities) = 2
    /\ storage = stringify(activities)
    /\ nextId + 1 \notin Ids(activities)

\* C12: after every addActivity, deleteActivity, clearActivities and every
\* updateActivity whose id is present, the array persisted under the storage
\* key is the in-memory list last delivered to subscribers (same activities,
\* same order), and loading from storage reproduces that list.
C12_StorageMirrorsList ==
    /\ storage = stringify(activities)
    /\ Len(storage) = Len(activities)
    /\ loadFromStorage(storage) = activities

\* an update with a present id was delivered: the second of two activities
\* now runs from 23:00 to 01:00 of the next day
C12_Witness ==
    /\ notified
    /\ Len(activities) = 2
    /\ activities[2].title = "Lunch"
    /\ activities[2].startTime = 1380
    /\ activities[2].endTime = 1500
    /\ storage[2].endTime = [day |-> 1, hour |-> 1, minute |-> 0]

----------------------------------------------------------------------------
(* Claims about addNow *)

\* the distance in seconds between a timestamp and a clock reading
SecondsApart(date, now, seconds) == Abs(date * 60 - (now * 60 + seconds))

\* the quarter-hour marks around a reading
QuarterMarks(now) == {now - getMinutes(now) + k * QuarterHour : k \in 0..4}

\* what the claim says of the activity that addNow appends
AppendsDefaultActivity(now, seconds) ==
    LET added == activities'[Len(activities')]
    IN  /\ Len(activities') = Len(activities) + 1
        /\ SubSeq(activities', 1, Len(activities)) = activities
        /\ added.durationMinutes = 60
        /\ getMinutes(added.startTime) \in {0, 15, 30, 45}
        /\ added.endTime = added.startTime + 60
        /\ \A mark \in QuarterMarks(now) :
            SecondsApart(added.startTime, now, seconds)
                <= SecondsApart(mark, now, seconds)

\* C13: for every current time of day addNow appends exactly one activity
\* with durationMinutes = 60, a startTime on a quarter-hour mark with zero
\* seconds that is the mark nearest to now (rolling into the next hour when
\* the rounded minutes reach 60), and endTime = startTime + 60 minutes; all
\* existing activities are unchanged.
C13_AddNowNearestQuarter ==
    [][\A now \in DayReadings, seconds \in ClockSeconds, color \in Palette :
        addNow(now, seconds, color) => AppendsDefaultActivity(now, seconds)]_vars

----------------------------------------------------------------------------
(* Claims about the geometry kernel *)

\* the calendar day and the minute of the day of a timestamp
DayOf(date) == date \div DayMinutes
MinuteOfDay(date) == date % DayMinutes

\* C14: for every time of day t at minute precision (00:00 to 23:59),
\* angleToTime(timeToAngle(t), t) has the calendar date of t and a time of
\* day within one minute of t's.
C14_RoundTripWithinAMinute ==
    Returned("roundTrip") =>
        LET t == kernel.args[1]
            back == kernel.ret[1]
        IN  /\ DayOf(back) = DayOf(t)
            /\ Abs(MinuteOfDay(back) - MinuteOfDay(t)) <= 1

\* 23:59 of day 1 has come back from the round trip
C14_Witness ==
    /\ Returned("roundTrip")
    /\ kernel.args = <<2879>>
    /\ getHours(kernel.ret[1]) = 23
    /\ getMinutes(kernel.ret[1]) = 59

\* C15: for every angle greater than or equal to -360, angleToTime(angle,
\* baseDate) returns a timestamp on the calendar date of baseDate, with zero
\* seconds and milliseconds, whose time of day is the angle normalized into
\* [0,360) divided by 15 hours and rounded to the minute; this includes angles
\* just below 360 and angles whose minute part rounds to 60.  baseDate itself
\* is not modified.
C15_AngleToTimeKeepsDate ==
    (Returned("angleToTime") /\ kernel.args[1] >= 0 - FullTurn) =>
        LET normalized == kernel.args[1] % FullTurn
            baseDate == kernel.args[2]
            time == kernel.ret[1]
        IN  /\ DayOf(time) = DayOf(baseDate)
            /\ MinuteOfDay(time) = MathRound(normalized * 60, HourAngle) % DayMinutes

\* C16: for every angle, snapAngleTo15Min(angle) is an integer multiple of
\* 3.75 that is at most 1.875 away from the angle, and
\* snapAngleTo15Min(snapAngleTo15Min(angle)) = snapAngleTo15Min(angle).
C16_SnapIsNearestStepAndIdempotent ==
    Returned("snapAngleTo15Min") =>
        LET angle == kernel.args[1]
            snapped == kernel.ret[1]
        IN  /\ snapped % Step = 0
            /\ 2 * Abs(snapped - angle) <= Step
            /\ snapAngleTo15Min(snapped) = snapped

\* -1.875 deg, half way between two marks, has been snapped up to 0
C16_Witness ==
    /\ Returned("snapAngleTo15Min")
    /\ kernel.args = <<0 - 15>>
    /\ kernel.ret = <<0>>

\* C17: describeArc never draws a sweep of 360 degrees or more: whenever
\* |endAngle - startAngle| >= 360 the end angle used for the path is
\* startAngle + 359.99 (so startAngle = 0, endAngle = 360 uses 359.99), and
\* the large-arc flag is 1 exactly when the sweep endAngle - startAngle (after
\* this clamp) exceeds 180, else 0, with the sweep-direction flag always 0.
C17_ArcNeverFullTurn ==
    Returned("describeArc") =>
        LET startAngle == kernel.args[1]
            endAngle == kernel.args[2]
            usedEndAngle == kernel.ret[1]
            largeArcFlag == kernel.ret[2]
            sweepFlag == kernel.ret[3]
        IN  /\ Abs(usedEndAngle - startAngle) < 36000
            /\ Abs(endAngle - startAngle) >= 36000 => usedEndAngle = startAngle + 35999
            /\ Abs(endAngle - startAngle) < 36000 => usedEndAngle = endAngle
            /\ kernel.args = <<0, 36000>> => usedEndAngle = 35999
            /\ largeArcFlag = (IF usedEndAngle - startAngle > 18000 THEN 1 ELSE 0)
            /\ sweepFlag = 0

\* the arc from 0 to 360 deg has been drawn to 359.99 deg with the large-arc
\* flag set
C17_Witness ==
    /\ Returned("describeArc")
    /\ kernel.args = <<0, 36000>>
    /\ kernel.ret = <<35999, 1, 0>>

----------------------------------------------------------------------------
(* Claims about the course of a gesture *)

Dragging == isDragging /\ draggedActivityId # Null

\* C18: once a pointer-down has put the controller in the dragging state, it
\* stays dragging through any sequence of pointer-moves, store operations
\* (add, update, delete of the dragged activity, clear) and modal operations;
\* only a release event (onEnd) returns it to idle.
C18_OnlyReleaseEndsDrag ==
    [][(Dragging /\ ~Dragging') => onEnd]_vars

\* still dragging, after a pointer-move that passed the threshold, although
\* the list has just been cleared
C18_Witness ==
    /\ Dragging
    /\ hasMoved
    /\ notified
    /\ activities = <<>>
    /\ DraggedIndex = 0

\* C19: the hasMoved latch is monotone within a gesture: a pointer-move to an
\* angle that differs from the press angle by more than 2 degrees sets it, and
\* once set every later pointer-move and the release leave it set, including
\* moves that return to the press angle; it is cleared only by a later
\* pointer-down.
C19_LatchIsMonotone ==
    [][/\ (hasMoved /\ ~hasMoved') => PointerDown
       /\ \A angle \in AngleSamples :
            (Dragging /\ onMove(angle)) =>
                /\ Abs(angle - dragStartAngle) > 16 => hasMoved'
                /\ hasMoved => hasMoved'
       /\ (hasMoved /\ onEnd) => hasMoved']_vars

\* released with the latch set, after a move-mode drag that went away from
\* the press angle and came back to it
C19_Witness ==
    /\ hasMoved
    /\ ~isDragging
    /\ gestures = 1
    /\ dragMode = "move"
    /\ Len(activities) = 1
    /\ nextId = 1
    /\ activities[1].startTime = initialStartTime
    /\ activities[1].endTime = initialEndTime
    /\ ~isModalOpen

\* the time of day, in minutes, that a snapped angle stands for
DialMinute(snappedAngle) == ((snappedAngle % FullTurn) * 60) \div HourAngle

OthersUnchanged(index) ==
    /\ Len(activities') = Len(activities)
    /\ \A j \in 1..Len(activities) : j # index => activities'[j] = activities[j]

\* C20: in end mode a pointer-move changes only the dragged activity's
\* endTime and durationMinutes: its startTime, id, title and colour, and every
\* other activity (and the list's length and order), are unchanged, and the
\* new endTime has the calendar date of the activity's startTime and the time
\* of day given by the snapped angle.  Symmetrically, in start mode only
\* startTime and durationMinutes change and the new startTime has the calendar
\* date of endTime.
C20_HandleDragFrame ==
    [][\A angle \in DragAngles :
        (Dragging /\ dragMode \in {"start", "end"} /\ onMove(angle)) =>
            IF DraggedIndex = 0
            THEN activities' = activities
            ELSE LET before == activities[DraggedIndex]
                     after == activities'[DraggedIndex]
                     minute == DialMinute(snapAngleTo15Min(angle))
                 IN  /\ OthersUnchanged(DraggedIndex)
                     /\ after.id = before.id
                     /\ after.title = before.title
                     /\ after.color = before.color
                     /\ dragMode = "end" =>
                         /\ after.startTime = before.startTime
                         /\ notified' =>
                             /\ DayOf(after.endTime) = DayOf(before.startTime)
                             /\ MinuteOfDay(after.endTime) = minute
                     /\ dragMode = "start" =>
                         /\ after.endTime = before.endTime
                         /\ notified' =>
                             /\ DayOf(after.startTime) = DayOf(before.endTime)
                             /\ MinuteOfDay(after.startTime) = minute]_vars

\* the start handle of the activity that ended at 00:00 of day 1 has been
\* dragged: its start is now on day 1 as well, its end is where it was
C20_Witness ==
    /\ Dragging
    /\ dragMode = "start"
    /\ DraggedIndex # 0
    /\ notified
    /\ LET a == activities[DraggedIndex]
       IN  /\ a.endTime = initialEndTime
           /\ a.endTime = DayMinutes
           /\ a.startTime # initialStartTime
           /\ DayOf(initialStartTime) = 0
           /\ DayOf(a.startTime) = 1

----------------------------------------------------------------------------
(* Claims about the layout and the order of the list *)

\* the list with its entries in the order p, a permutation of its indices
Reordered(acts, p) == [i \in 1..Len(acts) |-> acts[p[i]]]

\* the level that the layout r gives to the activity id
LevelOf(r, id) == r[CHOOSE i \in 1..Len(r) : r[i].id = id].level

\* C21: the level leveledActivities assigns to each activity depends only on
\* the activities' start and end times, not on their insertion order: for any
\* two lists holding the same activities in different orders (including
\* activities with equal start times), every activity gets the same level in
\* both.
C21_LevelsIgnoreInsertionOrder ==
    LET r == leveledActivities(activities)
    IN  \A p \in Permutations(1..Len(activities)) :
            LET q == leveledActivities(Reordered(activities, p))
            IN  \A id \in Ids(activities) : LevelOf(r, id) = LevelOf(q, id)

\* C22: in every reachable state of the controller isDragging is true if and
\* only if draggedActivityId is non-null: pointer-down sets both, release
\* clears both, and no other operation (pointer-move, store change, modal
\* open/save/delete/cancel, addNow, clearAll) changes either.
C22_DraggingIffDraggedId ==
    /\ [](isDragging <=> draggedActivityId # Null)
    /\ [][/\ PointerDown => (isDragging' /\ draggedActivityId' # Null)
          /\ onEnd => (~isDragging' /\ draggedActivityId' = Null)
          /\ (isDragging' # isDragging \/ draggedActivityId' # draggedActivityId)
                => (PointerDown \/ onEnd)]_vars

\* a second gesture is under way on another activity than the first, after a
\* release in between and with the modal open
C22_Witness ==
    /\ gestures = 2
    /\ isDragging
    /\ draggedActivityId = 2
    /\ isModalOpen
    /\ editingActivity.id = 1
    /\ initialStartTime # Undefined

QuarterMinutes == {0, 15, 30, 45}

\* the minutes argument that angleToTime hands to setHours for this angle
MinutePart(angle) ==
    LET normalizedAngle == JsMod(angle + FullTurn, FullTurn)
        hours == normalizedAngle \div HourAngle
    IN  MathRound((normalizedAngle - hours * HourAngle) * 60, HourAngle)

\* C23: quarter-hour alignment is preserved: if every activity is created by
\* addNow and changed only by drag gestures (start, end or move mode), then in
\* every reachable state each activity's startTime and endTime have minutes in
\* {0, 15, 30, 45}; the snapped angle used during a drag never makes
\* angleToTime produce a minute value of 60, and a move-mode offset is always
\* a whole multiple of 15 minutes.
C23_QuarterHourAlignment ==
    /\ \A i \in 1..Len(activities) :
        /\ getMinutes(activities[i].startTime) \in QuarterMinutes
        /\ getMinutes(activities[i].endTime) \in QuarterMinutes
    /\ Dragging =>
        \A angle \in DragAngles :
            /\ MinutePart(snapAngleTo15Min(angle)) \in QuarterMinutes
            /\ MoveOffset(angle) % 15 = 0
            /\ (MoveOffset(angle) * HourAngle) \div 60
                    = snapAngleTo15Min(angle) - snapAngleTo15Min(dragStartAngle)

\* a move-mode drag pressed at 359.5 deg and moved to 138 deg has taken the
\* activity three quarters of a day back, to quarter-hour marks of the day before
C23_Witness ==
    /\ Dragging
    /\ dragMode = "move"
    /\ dragStartAngle = 2876
    /\ DraggedIndex # 0
    /\ activities[DraggedIndex].startTime = initialStartTime - 885
    /\ activities[DraggedIndex].startTime < 0
    /\ getMinutes(activities[DraggedIndex].startTime) = 15

\* the activities of the list that contain the instant t
Containing(acts, t) ==
    {i \in 1..Len(acts) : acts[i].startTime <= t /\ t < acts[i].endTime}

\* the largest number of activities that contain one common instant; such an
\* instant can always be taken to be the start of one of them
OverlapDepth(acts) ==
    LET counts == {Cardinality(Containing(acts, acts[i].startTime)) :
                        i \in 1..Len(acts)} \cup {0}
    IN  CHOOSE n \in counts : \A m \in counts : m <= n

\* C24: when every activity has startTime < endTime, the number of distinct
\* levels used by leveledActivities equals the largest number of activities
\* that contain one common instant (the maximum overlap depth), and the levels
\* used are exactly 0 .. depth-1 with no gaps.
C24_LevelsEqualOverlapDepth ==
    (\A i \in 1..Len(activities) : activities[i].startTime < activities[i].endTime) =>
        LET r == leveledActivities(activities)
            levels == {r[i].level : i \in 1..Len(r)}
            depth == OverlapDepth(activities)
        IN  /\ Cardinality(levels) = depth
            /\ levels = 0..(depth - 1)

\* 09:30-10:30 stored first, then 09:00-10:00 and 10:00-11:00, which touch:
\* never more than two at one instant, and the levels used are 0 and 1
C24_Witness ==
    /\ Len(activities) = 3
    /\ activities[1].startTime = 570 /\ activities[1].endTime = 630
    /\ HasSpans({<<540, 600>>, <<570, 630>>, <<600, 660>>})
    /\ OverlapDepth(activities) = 2
    /\ {LevelOf(leveledActivities(activities), id) : id \in Ids(activities)} = {0, 1}

====
